---- MODULE Spec2Model ----
(***************************************************************************)
(* Friend-request workflow and friend graph of the social media app        *)
(* (backend/app/models.py; app/models.py holds the same methods).          *)
(*                                                                         *)
(* The database is the shared state: the FriendRequest table and the       *)
(* auto-created through table of Profile.friends.  Every request handler   *)
(* holds its own in-memory FriendRequest instance and runs the model       *)
(* methods statement by statement; each ORM call that touches the database *)
(* is one step (Django runs in autocommit mode, the methods open no        *)
(* transaction of their own).                                              *)
(*                                                                         *)
(* The read path (visible_posts, get_friends, get_mutual_friends,          *)
(* can_user_comment) and the content tables (Post, Comment, Reaction) have *)
(* specifications of their own: PostSpec, FriendSpec, CommentSpec and      *)
(* ReactionSpec start from the friend graphs the workflow can build and    *)
(* apply the reads and content writes to them.                             *)
(***************************************************************************)
EXTENDS Integers, FiniteSets, Sequences

\* ------------------------------------------------------------------ bounds
\* users (each with its profile), concurrent handlers, and the number of
\* calls (send / accept / reject / cancel / load) a behaviour may make
NumUsers == 2
NumHandlers == 2
MaxCalls == 4

Users == 1..NumUsers
Handlers == 1..NumHandlers

\* ------------------------------------------------------------- vocabulary
\* Python None: the pk of an instance that is not stored (Model.delete()
\* leaves pk = None), and every field of "no instance"
NoPk == 0

\* FriendRequest.STATUS_CHOICES
STATUS_CHOICES == {"pending", "accepted", "rejected"}

\* A FriendRequest row / instance: pk, sender, receiver, status
FriendRequest(pk, s, r, st) == [pk |-> pk, sender |-> s, receiver |-> r, status |-> st]

\* the handler holds no instance
NoObj == FriendRequest(NoPk, NoPk, NoPk, "none")

VARIABLES
    requests,   \* FriendRequest.objects: the stored rows
    next_pk,    \* the AutoField sequence of the FriendRequest table (see RowWithPk)
    friends,    \* through table of Profile.friends: <<from, to>> -> number of rows
    pc,         \* per handler: the statement it is at
    obj,        \* per handler: its FriendRequest instance (self)
    args,       \* per handler: <<sender, to_user>> of a running send_friend_request
    calls,      \* number of calls (model methods and loads) made so far
    event,      \* the step just taken: <<method, outcome>>
    posts,      \* Post.objects: posts[i] is the author of the post with pk i
    comments,   \* Comment.objects: the stored rows, in pk order
    reactions,  \* Reaction.objects: the stored rows
    out         \* the read or content call being answered, with its result

vars == <<requests, next_pk, friends, pc, obj, args, calls, event,
          posts, comments, reactions, out>>

\* the content tables and the call being answered
content == <<posts, comments, reactions, out>>

\* no call is being answered
NoOut == [op |-> "none"]

NoArgs == <<NoPk, NoPk>>

\* ------------------------------------------------------- graph store reads
\* Profile.is_friend_with: self.friends.filter(pk=other.profile.pk).exists()
is_friend_with(f, a, b) == f[<<a, b>>] > 0

RECURSIVE SumRows(_, _, _)
SumRows(f, a, S) ==
    IF S = {} THEN 0
    ELSE LET b == CHOOSE x \in S : TRUE
         IN  f[<<a, b>>] + SumRows(f, a, S \ {b})

\* Profile.friend_count: self.friends.count()
friend_count(f, a) == SumRows(f, a, Users)

\* ------------------------------------------------------ graph store writes
\* one direction of ManyRelatedManager.add: insert the missing target only
\* (faulty variant AddItemsNoCheck: a blind INSERT)
AddItemsNoCheck(f, a, b) == [f EXCEPT ![<<a, b>>] = @ + 1]
AddItems(f, a, b) == [f EXCEPT ![<<a, b>>] = IF @ = 0 THEN 1 ELSE @]

\* a.friends.add(b) on the symmetrical self relation: the row and its mirror,
\* inside one transaction.atomic block
\* (faulty variants: symmetrical=False writes one row; a lost add writes none;
\* a toggle removes the edge that is there)
FriendsAddOneWay(f, a, b) == AddItems(f, a, b)
FriendsAddNothing(f, a, b) == f
FriendsAddToggle(f, a, b) ==
    IF f[<<a, b>>] > 0
    THEN [f EXCEPT ![<<a, b>>] = 0, ![<<b, a>>] = 0]
    ELSE AddItems(AddItems(f, a, b), b, a)
FriendsAdd(f, a, b) == AddItems(AddItems(f, a, b), b, a)

\* ----------------------------------------------------- request table reads
\* FriendRequest.objects.filter(sender=, receiver=, status="pending").exists()
\* (faulty variant ExistsPendingNever: the check is missing)
ExistsPendingNever(rows, s, r) == FALSE
ExistsPending(rows, s, r) ==
    \E q \in rows : q.sender = s /\ q.receiver = r /\ q.status = "pending"

\* Meta.unique_together = ("sender", "receiver"): an INSERT of (s, r) is refused
\* (faulty variant NoConstraint: the constraint is missing)
NoConstraint(rows, s, r) == FALSE
UniqueViolation(rows, s, r) == \E q \in rows : q.sender = s /\ q.receiver = r

\* The row an instance stands for: WHERE id = pk.  The code never inspects a
\* pk value, it only finds the row of an instance by it, and a row's sender
\* and receiver never change.  Rows are therefore numbered per (sender,
\* receiver) pair: pk k of a pair is the k-th row ever inserted for that
\* pair, and an instance is its row when pair and number agree.
RowWithPk(rows, o) ==
    {q \in rows : q.pk = o.pk /\ q.sender = o.sender /\ q.receiver = o.receiver}

\* ---------------------------------------------------- request table writes
\* Model.save(): UPDATE the row with this pk; when no row was updated, INSERT
\* (with a fresh pk when the instance has none); the INSERT is refused by the
\* unique constraint.  Result: the table, the sequence, the instance's pk,
\* and whether IntegrityError was raised.
ModelSave(rows, next, o) ==
    IF o.pk # NoPk /\ RowWithPk(rows, o) # {}
    THEN [rows |-> (rows \ RowWithPk(rows, o)) \cup {o},
          next |-> next, pk |-> o.pk, err |-> FALSE]
    ELSE IF UniqueViolation(rows, o.sender, o.receiver)
    THEN [rows |-> rows, next |-> next, pk |-> o.pk, err |-> TRUE]
    ELSE IF o.pk = NoPk
    THEN [rows |-> rows \cup {[o EXCEPT !.pk = next[<<o.sender, o.receiver>>]]},
          next |-> [next EXCEPT ![<<o.sender, o.receiver>>] = @ + 1],
          pk |-> next[<<o.sender, o.receiver>>], err |-> FALSE]
    ELSE [rows |-> rows \cup {o}, next |-> next, pk |-> o.pk, err |-> FALSE]

\* Model.delete() of an instance with a pk: DELETE ... WHERE id = pk
\* (faulty variant ModelDeleteNothing: the row stays)
ModelDeleteNothing(rows, o) == rows
ModelDelete(rows, o) == rows \ RowWithPk(rows, o)

\* ------------------------------------------------------------------- Init
Init ==
    /\ requests = {}
    /\ next_pk = [p \in Users \X Users |-> 1]
    /\ friends = [p \in Users \X Users |-> 0]
    /\ pc = [h \in Handlers |-> "idle"]
    /\ obj = [h \in Handlers |-> NoObj]
    /\ args = [h \in Handlers |-> NoArgs]
    /\ calls = 0
    /\ event = <<"none", "None">>
    /\ posts = <<>>
    /\ comments = <<>>
    /\ reactions = {}
    /\ out = NoOut

\* ------------------------------------------------- Profile.send_friend_request
\* if to_user == self.user: raise ValueError
SelfCheck(s, r) == r = s

\* the call up to the INSERT: the self check, then the pending check
\* (the handler that serves a send holds no request instance of its own)
SendCall(h, s, r) ==
    /\ pc[h] = "idle"
    /\ calls < MaxCalls
    /\ calls' = calls + 1
    /\ obj' = [obj EXCEPT ![h] = NoObj]
    /\ IF SelfCheck(s, r)
       THEN /\ event' = <<"send", "ValueError_self">>
            /\ UNCHANGED <<pc, args>>
       ELSE IF ExistsPending(requests, s, r)
       THEN /\ event' = <<"send", "ValueError_duplicate">>
            /\ UNCHANGED <<pc, args>>
       ELSE /\ event' = <<"send", "running">>
            /\ pc' = [pc EXCEPT ![h] = "send_create"]
            /\ args' = [args EXCEPT ![h] = <<s, r>>]
    /\ UNCHANGED <<requests, next_pk, friends>>
    /\ UNCHANGED content

\* return FriendRequest.objects.create(sender=self.user, receiver=to_user)
SendCreate(h) ==
    /\ pc[h] = "send_create"
    /\ LET new == FriendRequest(NoPk, args[h][1], args[h][2], "pending")
           res == ModelSave(requests, next_pk, new)
       IN  /\ requests' = res.rows
           /\ next_pk' = res.next
           /\ IF res.err
              THEN /\ event' = <<"send", "IntegrityError">>
                   /\ UNCHANGED obj
              ELSE /\ event' = <<"send", "created">>
                   /\ obj' = [obj EXCEPT ![h] = [new EXCEPT !.pk = res.pk]]
    /\ pc' = [pc EXCEPT ![h] = "idle"]
    /\ args' = [args EXCEPT ![h] = NoArgs]
    /\ UNCHANGED <<friends, calls>>
    /\ UNCHANGED content

\* ------------------------------------------------ the handler loads a request
\* FriendRequest.objects.get(pk=...): a fresh instance copied from the row
Load(h, q) ==
    /\ pc[h] = "idle"
    /\ q \in requests
    /\ obj[h] # q
    /\ calls < MaxCalls
    /\ calls' = calls + 1
    /\ obj' = [obj EXCEPT ![h] = q]
    /\ event' = <<"load", "None">>
    /\ UNCHANGED <<requests, next_pk, friends, pc, args>>
    /\ UNCHANGED content

\* --------------------------------------------------------- FriendRequest.accept
\* if self.status != "pending": return
\* (faulty variant AlwaysPending: the guard is missing)
AlwaysPending(o) == TRUE
IsPending(o) == o.status = "pending"

\* self.status = "accepted"; self.save()
AcceptCall(h) ==
    /\ pc[h] = "idle"
    /\ obj[h] # NoObj
    /\ calls < MaxCalls
    /\ calls' = calls + 1
    /\ IF ~IsPending(obj[h])
       THEN /\ event' = <<"accept", "None">>
            /\ UNCHANGED <<requests, next_pk, pc, obj>>
       ELSE LET o == [obj[h] EXCEPT !.status = "accepted"]
                res == ModelSave(requests, next_pk, o)
            IN  /\ requests' = res.rows
                /\ next_pk' = res.next
                /\ obj' = [obj EXCEPT ![h] = [o EXCEPT !.pk = res.pk]]
                /\ IF res.err
                   THEN /\ event' = <<"accept", "IntegrityError">>
                        /\ UNCHANGED pc
                   ELSE /\ event' = <<"accept", "running">>
                        /\ pc' = [pc EXCEPT ![h] = "accept_add1"]
    /\ UNCHANGED <<friends, args>>
    /\ UNCHANGED content

\* sender_profile.friends.add(receiver_profile)
AcceptAdd1(h) ==
    /\ pc[h] = "accept_add1"
    /\ friends' = FriendsAdd(friends, obj[h].sender, obj[h].receiver)
    /\ pc' = [pc EXCEPT ![h] = "accept_add2"]
    /\ event' = <<"accept", "running">>
    /\ UNCHANGED <<requests, next_pk, obj, args, calls>>
    /\ UNCHANGED content

\* receiver_profile.friends.add(sender_profile); the method returns None
AcceptAdd2(h) ==
    /\ pc[h] = "accept_add2"
    /\ friends' = FriendsAdd(friends, obj[h].receiver, obj[h].sender)
    /\ pc' = [pc EXCEPT ![h] = "idle"]
    /\ event' = <<"accept", "accepted">>
    /\ UNCHANGED <<requests, next_pk, obj, args, calls>>
    /\ UNCHANGED content

\* ------------------------------------------- FriendRequest.reject / .cancel
\* self.delete(): ValueError when the instance has no pk; otherwise the row
\* is deleted (if it is still there) and the instance's pk becomes None
DeleteSelf(h, o, method) ==
    IF o.pk = NoPk
    THEN /\ event' = <<method, "ValueError_pk">>
         /\ obj' = [obj EXCEPT ![h] = o]
         /\ UNCHANGED requests
    ELSE /\ event' = <<method, "deleted">>
         /\ obj' = [obj EXCEPT ![h] = [o EXCEPT !.pk = NoPk]]
         /\ requests' = ModelDelete(requests, o)

\* if self.status == "pending": self.status = "rejected"; self.delete()
Reject(h) ==
    /\ pc[h] = "idle"
    /\ obj[h] # NoObj
    /\ calls < MaxCalls
    /\ calls' = calls + 1
    /\ IF IsPending(obj[h])
       THEN DeleteSelf(h, [obj[h] EXCEPT !.status = "rejected"], "reject")
       ELSE /\ event' = <<"reject", "None">>
            /\ UNCHANGED <<requests, obj>>
    /\ UNCHANGED <<next_pk, friends, pc, args>>
    /\ UNCHANGED content

\* if self.status == "pending": self.delete()
Cancel(h) ==
    /\ pc[h] = "idle"
    /\ obj[h] # NoObj
    /\ calls < MaxCalls
    /\ calls' = calls + 1
    /\ IF IsPending(obj[h])
       THEN DeleteSelf(h, obj[h], "cancel")
       ELSE /\ event' = <<"cancel", "None">>
            /\ UNCHANGED <<requests, obj>>
    /\ UNCHANGED <<next_pk, friends, pc, args>>
    /\ UNCHANGED content

\* ----------------------------------------------------------- specification
Step(h) ==
    \/ \E s, r \in Users : SendCall(h, s, r)
    \/ SendCreate(h)
    \/ \E q \in requests : Load(h, q)
    \/ AcceptCall(h)
    \/ AcceptAdd1(h)
    \/ AcceptAdd2(h)
    \/ Reject(h)
    \/ Cancel(h)

\* handlers run concurrently, interleaved at their database calls
Next == \E h \in Handlers : Step(h)

Spec == Init /\ [][Next]_vars

\* one call at a time: a handler steps only while no other call is running
SeqNext == \E h \in Handlers : (\A g \in Handlers \ {h} : pc[g] = "idle") /\ Step(h)

SeqSpec == Init /\ [][SeqNext]_vars

\* ============================================================ the read path
\* bounds of the read and content specifications: posts stored, and the
\* largest page number and page size a caller passes (the smallest is -1)
MaxPosts == 3
MaxPage == 2

PageArgs == (0 - 1)..MaxPage

\* request.user of a request without login: django's AnonymousUser, whose pk
\* is None and which has no profile attribute
AnonymousUser == 0

Viewers == Users \cup {AnonymousUser}

\* viewer.is_authenticated
is_authenticated(u) == u # AnonymousUser

\* a call returns a value or raises
Returned(v) == [err |-> "None", val |-> v]
Raised(e) == [err |-> e, val |-> <<>>]

\* every friend graph the request workflow can build: symmetric, no self
\* edge, one through row per direction
FriendGraphs(P) ==
    {f \in [P \X P -> {0, 1}] :
        \A a, b \in P : f[<<a, b>>] = f[<<b, a>>] /\ f[<<a, a>>] = 0}

\* request tables next to them: empty, or one pending request (a pending
\* request is stored with or without the two users being friends)
PendingTables == {{}, {FriendRequest(1, 1, 2, "pending")}}

\* self.user.posts.all(): the pks of the posts of a user; created_at is set
\* once on INSERT (auto_now_add), so a later post has a later created_at
user_posts(ps, u) == {i \in DOMAIN ps : ps[i] = u}

\* .order_by('-created_at')
RECURSIVE order_by_created_at_desc(_)
order_by_created_at_desc(S) ==
    IF S = {} THEN <<>>
    ELSE LET latest == CHOOSE i \in S : \A j \in S : j <= i
         IN  <<latest>> \o order_by_created_at_desc(S \ {latest})

\* QuerySet.__getitem__ with slice(start, stop): a negative bound is refused
\* ("Negative indexing is not supported."), otherwise OFFSET start LIMIT
\* stop - start, which is empty when stop <= start
QuerySetSlice(rows, start, stop) ==
    IF start < 0 \/ stop < 0
    THEN Raised("ValueError")
    ELSE Returned(SubSeq(rows, start + 1, IF stop < Len(rows) THEN stop ELSE Len(rows)))

\* [(page_number - 1) * page_size : page_number * page_size]
\* (faulty variant PageFromNext: the offset of the next page)
PageFromNext(rows, page_number, page_size) ==
    QuerySetSlice(rows, page_number * page_size, (page_number + 1) * page_size)
Page(rows, page_number, page_size) ==
    QuerySetSlice(rows, (page_number - 1) * page_size, page_number * page_size)

\* Profile.visible_posts of app/models.py
app_visible_posts(f, ps, owner, viewer, page_number, page_size) ==
    IF ~is_authenticated(viewer)
    THEN Returned(<<>>)
    ELSE IF viewer = owner \/ is_friend_with(f, owner, viewer)
    THEN Page(order_by_created_at_desc(user_posts(ps, owner)), page_number, page_size)
    ELSE Returned(<<>>)

\* Profile.visible_posts of backend/app/models.py: no is_authenticated test;
\* self.is_friend_with(viewer) reads viewer.profile, which AnonymousUser lacks
\* (faulty variant visible_posts_public: the friendship test is missing)
visible_posts_public(f, ps, owner, viewer, page_number, page_size) ==
    Page(order_by_created_at_desc(user_posts(ps, owner)), page_number, page_size)
visible_posts(f, ps, owner, viewer, page_number, page_size) ==
    IF viewer = owner
    THEN Page(order_by_created_at_desc(user_posts(ps, owner)), page_number, page_size)
    ELSE IF ~is_authenticated(viewer)
    THEN Raised("AttributeError")
    ELSE IF is_friend_with(f, owner, viewer)
    THEN Page(order_by_created_at_desc(user_posts(ps, owner)), page_number, page_size)
    ELSE Returned(<<>>)

\* ---------------------------------------------- specification of post reads
\* (the request sequence has passed the pk of the stored row)
PostInit ==
    /\ requests \in PendingTables
    /\ next_pk = [p \in Users \X Users |-> 2]
    /\ friends \in FriendGraphs(Users)
    /\ pc = [h \in Handlers |-> "idle"]
    /\ obj = [h \in Handlers |-> NoObj]
    /\ args = [h \in Handlers |-> NoArgs]
    /\ calls = 0
    /\ event = <<"none", "None">>
    /\ posts = <<>>
    /\ comments = <<>>
    /\ reactions = {}
    /\ out = NoOut

\* Post.objects.create(author=u, ...)
CreatePost(u) ==
    /\ out = NoOut
    /\ Len(posts) < MaxPosts
    /\ posts' = Append(posts, u)
    /\ UNCHANGED <<requests, next_pk, friends, pc, obj, args, calls, event,
                   comments, reactions, out>>

\* a handler answers owner.profile.visible_posts(viewer, page_number, page_size)
VisiblePosts(variant, owner, viewer, page_number, page_size) ==
    /\ out = NoOut
    /\ out' = [op |-> "visible_posts", variant |-> variant, owner |-> owner,
               viewer |-> viewer, page_number |-> page_number, page_size |-> page_size,
               ret |-> IF variant = "app"
                       THEN app_visible_posts(friends, posts, owner, viewer,
                                              page_number, page_size)
                       ELSE visible_posts(friends, posts, owner, viewer,
                                          page_number, page_size)]
    /\ UNCHANGED <<requests, next_pk, friends, pc, obj, args, calls, event,
                   posts, comments, reactions>>

\* the response is sent
Respond ==
    /\ out # NoOut
    /\ out' = NoOut
    /\ UNCHANGED <<requests, next_pk, friends, pc, obj, args, calls, event,
                   posts, comments, reactions>>

\* a handler answers one call at a time
PostNext ==
    \/ out = NoOut /\ \E u \in Users : CreatePost(u)
    \/ out = NoOut /\ \E variant \in {"app", "backend"}, owner \in Users,
                         viewer \in Viewers, page_number, page_size \in PageArgs :
                           VisiblePosts(variant, owner, viewer, page_number, page_size)
    \/ Respond

PostSpec == PostInit /\ [][PostNext]_vars

\* ------------------------------------------------------- friend list reads
\* profiles of the friend-list specification (a mutual friend needs three)
NumProfiles == 3

Profiles == 1..NumProfiles

\* viewer=None, the default of get_friends
NoViewer == 0 - 1

\* self.friends.all(): the targets of the through rows of a profile
\* (a QuerySet without ORDER BY: a set)
friends_all(f, a) == {p[2] : p \in {q \in DOMAIN f : q[1] = a /\ f[q] > 0}}

\* Profile.get_mutual_friends: my_friends & viewer_friends is the QuerySet of
\* the profiles that have a through row from both
\* (faulty variant get_mutual_friends_of_self: the viewer == self.user test is
\* missing)
get_mutual_friends_of_self(f, owner, viewer) ==
    IF viewer = NoViewer
    THEN Raised("AttributeError")
    ELSE IF ~is_authenticated(viewer)
    THEN Returned({})
    ELSE Returned(friends_all(f, owner) \cap friends_all(f, viewer))
get_mutual_friends(f, owner, viewer) ==
    IF viewer = NoViewer
    THEN Raised("AttributeError")
    ELSE IF ~is_authenticated(viewer) \/ viewer = owner
    THEN Returned({})
    ELSE Returned(friends_all(f, owner) \cap friends_all(f, viewer))

\* Profile.mutual_friend_count: self.get_mutual_friends(viewer).count()
mutual_friend_count(f, owner, viewer) ==
    LET m == get_mutual_friends(f, owner, viewer)
    IN  IF m.err # "None" THEN m ELSE Returned(Cardinality(m.val))

\* the rows of an unordered QuerySet as the database hands them out: in the
\* order db_order (of the friend rows of the owner), which the database is
\* free to choose for every query
Rows(S, db_order) == SelectSeq(db_order, LAMBDA x : x \in S)

DbOrders(P) == {s \in [1..Cardinality(P) -> P] : \A i, j \in DOMAIN s : s[i] = s[j] => i = j}

\* Profile.get_friends
\* (faulty variant get_friends_all: every viewer is shown all friends)
get_friends_all(f, owner, viewer, page_number, page_size, db_order) ==
    Page(Rows(friends_all(f, owner), db_order), page_number, page_size)
get_friends(f, owner, viewer, page_number, page_size, db_order) ==
    IF viewer = NoViewer \/ ~is_authenticated(viewer)
    THEN Returned(<<>>)
    ELSE IF viewer = owner \/ is_friend_with(f, owner, viewer)
    THEN Page(Rows(friends_all(f, owner), db_order), page_number, page_size)
    ELSE Page(Rows(get_mutual_friends(f, owner, viewer).val, db_order),
              page_number, page_size)

\* -------------------------------------- specification of friend list reads
FriendInit ==
    /\ requests = {}
    /\ next_pk = [p \in Profiles \X Profiles |-> 1]
    /\ friends \in FriendGraphs(Profiles)
    /\ pc = [h \in Handlers |-> "idle"]
    /\ obj = [h \in Handlers |-> NoObj]
    /\ args = [h \in Handlers |-> NoArgs]
    /\ calls = 0
    /\ event = <<"none", "None">>
    /\ posts = <<>>
    /\ comments = <<>>
    /\ reactions = {}
    /\ out = NoOut

\* a handler answers owner.profile.get_friends(viewer, page_number, page_size)
GetFriends(owner, viewer, page_number, page_size, db_order) ==
    /\ out = NoOut
    /\ out' = [op |-> "get_friends", owner |-> owner, viewer |-> viewer,
               page_number |-> page_number, page_size |-> page_size,
               ret |-> get_friends(friends, owner, viewer, page_number, page_size,
                                   db_order)]
    /\ UNCHANGED <<requests, next_pk, friends, pc, obj, args, calls, event,
                   posts, comments, reactions>>

\* a handler answers owner.profile.get_mutual_friends(viewer)
GetMutualFriends(owner, viewer) ==
    /\ out = NoOut
    /\ out' = [op |-> "get_mutual_friends", owner |-> owner, viewer |-> viewer,
               ret |-> get_mutual_friends(friends, owner, viewer)]
    /\ UNCHANGED <<requests, next_pk, friends, pc, obj, args, calls, event,
                   posts, comments, reactions>>

\* a handler answers owner.profile.mutual_friend_count(viewer)
MutualFriendCount(owner, viewer) ==
    /\ out = NoOut
    /\ out' = [op |-> "mutual_friend_count", owner |-> owner, viewer |-> viewer,
               ret |-> mutual_friend_count(friends, owner, viewer)]
    /\ UNCHANGED <<requests, next_pk, friends, pc, obj, args, calls, event,
                   posts, comments, reactions>>

FriendNext ==
    \/ out = NoOut /\ \E owner \in Profiles :
                         \E db_order \in DbOrders(friends_all(friends, owner)),
                            viewer \in Profiles \cup {AnonymousUser, NoViewer},
                            page_number, page_size \in PageArgs :
                              GetFriends(owner, viewer, page_number, page_size, db_order)
    \/ out = NoOut /\ \E owner \in Profiles,
                         viewer \in Profiles \cup {AnonymousUser, NoViewer} :
                           GetMutualFriends(owner, viewer)
    \/ out = NoOut /\ \E owner \in Profiles,
                         viewer \in Profiles \cup {AnonymousUser, NoViewer} :
                           MutualFriendCount(owner, viewer)
    \/ Respond

FriendSpec == FriendInit /\ [][FriendNext]_vars

\* ----------------------------------------------------------------- comments
\* comments stored by the comment specification
MaxComments == 1

\* a Comment row; its pk is its place in the table
Comment(post, user) == [post |-> post, user |-> user]

\* Comment.can_user_comment (self.post is the post); user.profile raises for
\* AnonymousUser
\* (faulty variant can_user_comment_anyone: the friendship test is missing)
can_user_comment_anyone(f, ps, post, user) == Returned(TRUE)
can_user_comment(f, ps, post, user) ==
    LET post_author == ps[post]
    IN  IF user = post_author
        THEN Returned(TRUE)
        ELSE IF ~is_authenticated(user)
        THEN Raised("AttributeError")
        ELSE Returned(is_friend_with(f, user, post_author))

CommentInit ==
    /\ requests = {}
    /\ next_pk = [p \in Users \X Users |-> 1]
    /\ friends \in FriendGraphs(Users)
    /\ pc = [h \in Handlers |-> "idle"]
    /\ obj = [h \in Handlers |-> NoObj]
    /\ args = [h \in Handlers |-> NoArgs]
    /\ calls = 0
    /\ event = <<"none", "None">>
    /\ posts = <<>>
    /\ comments = <<>>
    /\ reactions = {}
    /\ out = NoOut

\* a handler answers Comment(post=post).can_user_comment(user)
CanUserComment(post, user) ==
    /\ out = NoOut
    /\ out' = [op |-> "can_user_comment", post |-> post, user |-> user,
               ret |-> can_user_comment(friends, posts, post, user)]
    /\ UNCHANGED <<requests, next_pk, friends, pc, obj, args, calls, event,
                   posts, comments, reactions>>

\* addComment: asks can_user_comment and fails with PermissionDeniedError
\* before persisting when it is false; otherwise the Comment row is created
AddComment(post, user) ==
    /\ out = NoOut
    /\ Len(comments) < MaxComments
    /\ LET can == can_user_comment(friends, posts, post, user)
       IN  IF can.err # "None"
           THEN /\ out' = [op |-> "add_comment", post |-> post, user |-> user, ret |-> can]
                /\ UNCHANGED comments
           ELSE IF ~can.val
           THEN /\ out' = [op |-> "add_comment", post |-> post, user |-> user,
                           ret |-> Raised("PermissionDeniedError")]
                /\ UNCHANGED comments
           ELSE /\ out' = [op |-> "add_comment", post |-> post, user |-> user,
                           ret |-> Returned(Len(comments) + 1)]
                /\ comments' = Append(comments, Comment(post, user))
    /\ UNCHANGED <<requests, next_pk, friends, pc, obj, args, calls, event,
                   posts, reactions>>

CommentNext ==
    \/ out = NoOut /\ \E u \in Users : CreatePost(u)
    \/ out = NoOut /\ \E post \in DOMAIN posts, user \in Viewers : CanUserComment(post, user)
    \/ out = NoOut /\ \E post \in DOMAIN posts, user \in Viewers : AddComment(post, user)
    \/ Respond

CommentSpec == CommentInit /\ [][CommentNext]_vars

\* ---------------------------------------------------------------- reactions
\* Reaction.REACTION_CHOICES
REACTION_CHOICES == {"like", "love", "haha", "angry", "sad"}

\* the kinds the callers pass here
ReactionInputs == {"like", "love"}

\* a Reaction row
Reaction(post, user, reaction_type) ==
    [post |-> post, user |-> user, reaction_type |-> reaction_type]

\* Post.has_reacted
has_reacted(rows, post, user) ==
    IF ~is_authenticated(user)
    THEN FALSE
    ELSE \E q \in rows : q.post = post /\ q.user = user

\* Reaction.Meta.unique_together = ("post", "user"): the conflict an INSERT
\* of (post, user) runs into
\* (faulty variant NoReactionConstraint: the constraint is missing)
NoReactionConstraint(rows, post, user) == FALSE
ReactionUniqueViolation(rows, post, user) ==
    \E q \in rows : q.post = post /\ q.user = user

\* UPDATE ... SET reaction_type = kind WHERE post = post AND user = user
ReactionUpdate(rows, post, user, kind) ==
    {IF q.post = post /\ q.user = user THEN [q EXCEPT !.reaction_type = kind] ELSE q :
        q \in rows}

ReactionInit ==
    /\ requests = {}
    /\ next_pk = [p \in Users \X Users |-> 1]
    /\ friends = [p \in Users \X Users |-> 0]
    /\ pc = [h \in Handlers |-> "idle"]
    /\ obj = [h \in Handlers |-> NoObj]
    /\ args = [h \in Handlers |-> NoArgs]
    /\ calls = 0
    /\ event = <<"none", "None">>
    /\ posts = <<1, 2>>
    /\ comments = <<>>
    /\ reactions = {}
    /\ out = NoOut

\* setReaction(post, user, kind), an upsert: first the UPDATE of the row of
\* the pair; when no row matched, the INSERT follows
SetReaction(h, post, user, kind) ==
    /\ pc[h] = "idle"
    /\ calls < MaxCalls
    /\ calls' = calls + 1
    /\ IF \E q \in reactions : q.post = post /\ q.user = user
       THEN /\ reactions' = ReactionUpdate(reactions, post, user, kind)
            /\ event' = <<"set_reaction", "updated", post, user, kind>>
            /\ UNCHANGED <<pc, args>>
       ELSE /\ pc' = [pc EXCEPT ![h] = "react_insert"]
            /\ args' = [args EXCEPT ![h] = <<post, user, kind>>]
            /\ event' = <<"set_reaction", "running", post, user, kind>>
            /\ UNCHANGED reactions
    /\ UNCHANGED <<requests, next_pk, friends, obj, posts, comments, out>>

\* the INSERT of the upsert: on a conflict with the unique constraint the
\* stored row is updated instead
ReactInsert(h) ==
    /\ pc[h] = "react_insert"
    /\ LET post == args[h][1]
           user == args[h][2]
           kind == args[h][3]
       IN  IF ReactionUniqueViolation(reactions, post, user)
           THEN /\ reactions' = ReactionUpdate(reactions, post, user, kind)
                /\ event' = <<"set_reaction", "conflict_updated", post, user, kind>>
           ELSE /\ reactions' = reactions \cup {Reaction(post, user, kind)}
                /\ event' = <<"set_reaction", "created", post, user, kind>>
    /\ pc' = [pc EXCEPT ![h] = "idle"]
    /\ args' = [args EXCEPT ![h] = NoArgs]
    /\ UNCHANGED <<requests, next_pk, friends, obj, calls, posts, comments, out>>

ReactionNext ==
    \E h \in Handlers :
        \/ \E post \in DOMAIN posts, user \in Users, kind \in ReactionInputs :
              SetReaction(h, post, user, kind)
        \/ ReactInsert(h)

ReactionSpec == ReactionInit /\ [][ReactionNext]_vars

\* =================================================================== claims
Pairs == Users \X Users
IsFriend(a, b) == is_friend_with(friends, a, b)
PendingRows(s, r) == {q \in requests : q.sender = s /\ q.receiver = r /\ q.status = "pending"}
StoreUnchanged == requests' = requests /\ friends' = friends /\ next_pk' = next_pk

\* C1: in every reachable state friendship is symmetric (b is a friend of a
\* iff a is a friend of b) and no profile is its own friend; no state has one
\* side of a friend edge without the other.
FriendshipSymmetric ==
    \A a, b \in Users :
        /\ IsFriend(a, b) <=> IsFriend(b, a)
        /\ ~IsFriend(a, a)

\* C1 witness: an accept has just made its first friends.add call and both
\* sides of the edge are stored.
FriendshipSymmetricWitness ==
    \E h \in Handlers :
        /\ pc[h] = "accept_add2"
        /\ IsFriend(obj[h].sender, obj[h].receiver)
        /\ IsFriend(obj[h].receiver, obj[h].sender)

\* C2: accept is atomic: no reachable state holds a stored request with
\* status accepted whose sender and receiver are not friends.
AcceptedImpliesFriends ==
    \A q \in requests :
        q.status = "accepted" => IsFriend(q.sender, q.receiver) /\ IsFriend(q.receiver, q.sender)

\* C3: when calls do not interleave, every accept of a pending request that
\* runs to its end leaves sender and receiver friends in both directions and
\* the request stored with status accepted.
SendThenAcceptMakesFriends ==
    [][\A h \in Handlers :
          (pc[h] = "accept_add2" /\ pc'[h] = "idle")
          => /\ friends'[<<obj[h].sender, obj[h].receiver>>] > 0
             /\ friends'[<<obj[h].receiver, obj[h].sender>>] > 0
             /\ FriendRequest(obj[h].pk, obj[h].sender, obj[h].receiver, "accepted")
                    \in requests']_vars

\* C3 witness: exactly send then accept were called; the two users are
\* friends and the request is stored as accepted.
SendThenAcceptWitness ==
    /\ calls = 2
    /\ event = <<"accept", "accepted">>
    /\ \E h \in Handlers :
          /\ obj[h] \in requests
          /\ obj[h].status = "accepted"
          /\ IsFriend(obj[h].sender, obj[h].receiver)
          /\ IsFriend(obj[h].receiver, obj[h].sender)

\* C4: send(sender, receiver) with sender # receiver fails only when a
\* pending request for that ordered pair is stored; otherwise it creates a
\* pending request.
SendFailsOnlyOnPending ==
    [][\A h \in Handlers :
          (pc[h] = "send_create" /\ pc'[h] = "idle")
          => IF PendingRows(args[h][1], args[h][2]) # {}
             THEN event'[2] = "IntegrityError"
             ELSE /\ event' = <<"send", "created">>
                  /\ \E q \in requests' :
                        /\ q.sender = args[h][1]
                        /\ q.receiver = args[h][2]
                        /\ q.status = "pending"]_vars

\* C5: send fails and leaves the request table and the friend sets unchanged
\* when sender = receiver (whatever is stored: the self check comes first) and
\* when a pending request for the ordered pair is stored.
SendErrorsLeaveStoreUnchanged ==
    [][event'[1] = "send" =>
        \A h \in Handlers :
          /\ \A s \in Users :
                SendCall(h, s, s)
                => /\ event' = <<"send", "ValueError_self">>
                   /\ pc'[h] = "idle"
                   /\ StoreUnchanged
          /\ \A q \in requests :
                (q.status = "pending" /\ SendCall(h, q.sender, q.receiver))
                => /\ event' = <<"send", "ValueError_duplicate">>
                   /\ pc'[h] = "idle"
                   /\ StoreUnchanged
          /\ \A q \in requests :
                (q.status = "pending" /\ args[h] = <<q.sender, q.receiver>> /\ SendCreate(h))
                => /\ event' = <<"send", "IntegrityError">>
                   /\ StoreUnchanged]_vars

\* C5 witness: a send has just been refused because a pending request for
\* the pair is stored.
SendErrorsWitness ==
    /\ event = <<"send", "ValueError_duplicate">>
    /\ \E p \in Pairs : PendingRows(p[1], p[2]) # {}

\* C6: at most one request row is stored per ordered (sender, receiver) pair.
OneRowPerPair ==
    \A q1, q2 \in requests :
        (q1.sender = q2.sender /\ q1.receiver = q2.receiver) => q1 = q2

\* C6 witness: of two racing sends for one pair the second INSERT was
\* refused, while the opposite-direction request is pending beside it.
OneRowPerPairWitness ==
    /\ event = <<"send", "IntegrityError">>
    /\ \E a, b \in Users :
          /\ a # b
          /\ PendingRows(a, b) # {}
          /\ PendingRows(b, a) # {}

\* C7: accept on an instance whose status is not pending returns None and
\* changes neither the instance, nor any stored request, nor any friend set.
AcceptNonPendingNoOp ==
    [][\A h \in Handlers :
          (AcceptCall(h) /\ obj[h].status # "pending")
          => /\ event' = <<"accept", "None">>
             /\ StoreUnchanged
             /\ obj' = obj
             /\ pc' = pc]_vars

\* C7 witness: accept has just returned from its early exit, and an instance
\* with status rejected is held by a handler.
AcceptNonPendingWitness ==
    /\ event = <<"accept", "None">>
    /\ \E h \in Handlers : obj[h].status = "rejected"

\* C8: reject and cancel on a pending stored instance delete exactly the row
\* with its pk; on a non-pending instance they change nothing; they never
\* touch a friend set, and no row with status rejected is ever stored.
RejectCancelOnlyDelete ==
    [][/\ \A h \in Handlers :
            (Reject(h) \/ Cancel(h))
            => /\ friends' = friends
               /\ next_pk' = next_pk
               /\ IF obj[h].status = "pending" /\ obj[h].pk # NoPk
                  THEN requests' = {q \in requests :
                                       ~(/\ q.pk = obj[h].pk
                                         /\ q.sender = obj[h].sender
                                         /\ q.receiver = obj[h].receiver)}
                  ELSE requests' = requests
       /\ \A q \in requests' : q.status \in STATUS_CHOICES \ {"rejected"}]_vars

\* C8 witness: a reject has just deleted the row of its request.
RejectCancelWitness ==
    /\ event = <<"reject", "deleted">>
    /\ \E h \in Handlers :
          /\ obj[h].status = "rejected"
          /\ \A q \in requests : ~(q.sender = obj[h].sender /\ q.receiver = obj[h].receiver)

\* C9: once an instance has been rejected or canceled (its row deleted, its
\* pk None), every later accept, reject or cancel on it returns None and
\* changes neither the request table nor the friend sets.
RejectedCanceledTerminal ==
    [][\A h \in Handlers :
          ((AcceptCall(h) \/ Reject(h) \/ Cancel(h)) /\ obj[h].pk = NoPk)
          => /\ event'[2] = "None"
             /\ StoreUnchanged
             /\ pc' = pc]_vars

\* C10: no profile occurs twice in a friend set, and an accept between two
\* profiles that are friends already changes no friend set and no friend count.
AddFriendEdgeIdempotent ==
    [][/\ \A p \in Pairs : friends'[p] <= 1
       /\ \A h \in Handlers :
            ((AcceptAdd1(h) \/ AcceptAdd2(h))
               /\ IsFriend(obj[h].sender, obj[h].receiver)
               /\ IsFriend(obj[h].receiver, obj[h].sender))
            => /\ friends' = friends
               /\ \A a \in Users : friend_count(friends', a) = friend_count(friends, a)]_vars

\* C10 witness: both opposite-direction requests are stored as accepted and
\* each profile has exactly one friend.
AddFriendEdgeWitness ==
    /\ event = <<"accept", "accepted">>
    /\ \E a, b \in Users :
          /\ a # b
          /\ \E q1, q2 \in requests :
                /\ q1.sender = a /\ q1.receiver = b /\ q1.status = "accepted"
                /\ q2.sender = b /\ q2.receiver = a /\ q2.status = "accepted"
          /\ friend_count(friends, a) = 1
          /\ friend_count(friends, b) = 1

\* C11: a call of visible_posts (either schema variant) by an authenticated
\* viewer who is neither the owner nor a friend of the owner returns the empty
\* sequence, whatever posts the owner has and whatever request is stored
\* between the two.
NonFriendSeesNoPosts ==
    (/\ out.op = "visible_posts"
     /\ out.viewer \in Users
     /\ out.viewer # out.owner
     /\ friends[<<out.owner, out.viewer>>] = 0
     /\ friends[<<out.viewer, out.owner>>] = 0)
    => out.ret = [err |-> "None", val |-> <<>>]

\* C11 witness: the viewer has a pending request to the owner and is not a
\* friend; the owner has MaxPosts posts; the backend variant answered the
\* first page with nothing.
NonFriendSeesNoPostsWitness ==
    /\ out.op = "visible_posts"
    /\ out.variant = "backend"
    /\ out.viewer = 1 /\ out.owner = 2
    /\ FriendRequest(1, 1, 2, "pending") \in requests
    /\ friends[<<2, 1>>] = 0
    /\ Cardinality({i \in DOMAIN posts : posts[i] = 2}) = MaxPosts
    /\ out.page_number = 1 /\ out.page_size = MaxPage
    /\ out.ret.err = "None" /\ out.ret.val = <<>>

\* C12: a read by an anonymous viewer never raises: visible_posts and
\* get_friends return an empty result, in both schema variants.
AnonymousReadsReturnEmpty ==
    (/\ out.op \in {"visible_posts", "get_friends"}
     /\ out.viewer = AnonymousUser)
    => out.ret = [err |-> "None", val |-> <<>>]

\* the owner's posts, newest first: s lists each post of the owner once, in
\* strictly descending creation order
IsPostsNewestFirst(s, owner) ==
    /\ {s[i] : i \in DOMAIN s} = {j \in DOMAIN posts : posts[j] = owner}
    /\ \A i \in DOMAIN s : \A k \in DOMAIN s : i < k => s[i] > s[k]

RECURSIVE PagesUpTo(_, _, _)
PagesUpTo(owner, page_size, n) ==
    IF n = 0 THEN <<>>
    ELSE PagesUpTo(owner, page_size, n - 1)
            \o visible_posts(friends, posts, owner, owner, n, page_size).val

\* C13: for the owner or a friend, with page_number >= 1 and page_size >= 1,
\* visible_posts returns the posts of the owner (no other author's) at the
\* positions (page_number-1)*page_size .. page_number*page_size-1 of the
\* owner's posts newest first: the i-th returned post has exactly
\* (page_number-1)*page_size + i - 1 newer posts of the owner, and the page is
\* short only at the end of the list; for every content of the post table
\* (looked at between two calls) the pages 1, 2, ... laid end to end are the
\* whole list, each post once.
VisiblePostsPage ==
    /\ (/\ out.op = "visible_posts"
        /\ out.viewer \in Users
        /\ (out.viewer = out.owner \/ friends[<<out.owner, out.viewer>>] > 0)
        /\ out.page_number >= 1 /\ out.page_size >= 1)
       => LET r == out.ret.val
              first == (out.page_number - 1) * out.page_size
              n == Cardinality({j \in DOMAIN posts : posts[j] = out.owner})
          IN  /\ out.ret.err = "None"
              /\ \A i \in DOMAIN r :
                    /\ r[i] \in DOMAIN posts
                    /\ posts[r[i]] = out.owner
                    /\ Cardinality({j \in DOMAIN posts :
                                       posts[j] = out.owner /\ j > r[i]}) = first + i - 1
              /\ Len(r) = IF n <= first THEN 0
                          ELSE IF n - first < out.page_size THEN n - first
                          ELSE out.page_size
    /\ out = NoOut
       => \A owner \in Users : \A page_size \in 1..MaxPage :
             IsPostsNewestFirst(PagesUpTo(owner, page_size, MaxPosts), owner)

\* C13 witness: a friend asked for page 2 with page size 1 of an owner whose
\* two posts have a post of the friend between them, and got the older one.
VisiblePostsPageWitness ==
    /\ out.op = "visible_posts"
    /\ out.viewer # out.owner
    /\ out.viewer \in Users
    /\ out.page_number = 2 /\ out.page_size = 1
    /\ posts = <<out.owner, out.viewer, out.owner>>
    /\ out.ret.val = <<1>>

\* C14: a paginated read (get_friends, visible_posts) by an authenticated
\* viewer with page_number < 1 or page_size < 1 fails with an error and
\* returns no result.
InvalidPageFails ==
    (/\ out.op \in {"get_friends", "visible_posts"}
     /\ out.viewer \in Profiles
     /\ (out.page_number < 1 \/ out.page_size < 1))
    => out.ret.err # "None"

\* the friends of a profile, read off the through table
FriendSet(a) == {b \in Profiles : friends[<<a, b>>] > 0}

\* r is a page of the set S: members of S, none twice, as many as the page
\* holds or as are left
IsPageOf(r, S, page_number, page_size) ==
    LET first == (page_number - 1) * page_size
        n == Cardinality(S)
    IN  /\ \A i \in DOMAIN r : r[i] \in S
        /\ \A i, j \in DOMAIN r : r[i] = r[j] => i = j
        /\ Len(r) = IF n <= first THEN 0
                    ELSE IF n - first < page_size THEN n - first
                    ELSE page_size

\* C15: get_friends for an authenticated viewer, page_number >= 1 and
\* page_size >= 1: the owner and the owner's friends get a page of the owner's
\* friend set; every other viewer gets a page of the profiles that are
\* friends of both the owner and the viewer, so never a friend of the owner
\* who is not the viewer's friend too.
VisibleFriendsPage ==
    (/\ out.op = "get_friends"
     /\ out.viewer \in Profiles
     /\ out.page_number >= 1 /\ out.page_size >= 1)
    => /\ out.ret.err = "None"
       /\ IF out.viewer = out.owner \/ friends[<<out.owner, out.viewer>>] > 0
          THEN IsPageOf(out.ret.val, FriendSet(out.owner),
                        out.page_number, out.page_size)
          ELSE /\ IsPageOf(out.ret.val, FriendSet(out.owner) \cap FriendSet(out.viewer),
                           out.page_number, out.page_size)
               /\ \A i \in DOMAIN out.ret.val :
                     /\ friends[<<out.owner, out.ret.val[i]>>] > 0
                     /\ friends[<<out.viewer, out.ret.val[i]>>] > 0

\* C15 witness: the owner has a friend who is no friend of the viewer; the
\* viewer, no friend of the owner, asked for the first page and got nothing.
VisibleFriendsPageWitness ==
    /\ out.op = "get_friends"
    /\ out.viewer \in Profiles
    /\ out.viewer # out.owner
    /\ friends[<<out.owner, out.viewer>>] = 0
    /\ \E c \in Profiles : friends[<<out.owner, c>>] > 0 /\ friends[<<out.viewer, c>>] = 0
    /\ out.page_number = 1 /\ out.page_size = MaxPage
    /\ out.ret.err = "None" /\ out.ret.val = <<>>

\* C16: for all profiles a and b, get_mutual_friends(a, b) returns (never
\* raises) the same set as get_mutual_friends(b, a): for a # b the profiles
\* that are friends of both, for a = b the empty set; it is empty when either
\* friend set is empty and never contains a or b; mutual_friend_count is its
\* cardinality.
MutualFriendsSymmetric ==
    /\ \A a, b \in Profiles :
          LET m == get_mutual_friends(friends, a, b)
          IN  /\ m.err = "None"
              /\ m = get_mutual_friends(friends, b, a)
              /\ a # b => m.val = FriendSet(a) \cap FriendSet(b)
              /\ a = b => m.val = {}
              /\ (FriendSet(a) = {} \/ FriendSet(b) = {}) => m.val = {}
              /\ a \notin m.val /\ b \notin m.val
    /\ (out.op = "mutual_friend_count" /\ out.viewer \in Profiles)
       => /\ out.ret.err = "None"
          /\ out.ret.val = IF out.viewer = out.owner THEN 0
                           ELSE Cardinality(FriendSet(out.owner) \cap FriendSet(out.viewer))

\* C16 witness: two profiles that are not friends have one mutual friend, and
\* the count was answered with 1.
MutualFriendsWitness ==
    /\ out.op = "mutual_friend_count"
    /\ out.viewer \in Profiles
    /\ out.viewer # out.owner
    /\ friends[<<out.owner, out.viewer>>] = 0
    /\ Cardinality(FriendSet(out.owner) \cap FriendSet(out.viewer)) = 1
    /\ out.ret.val = 1

\* the user is the author of the post or a friend of its author
AuthorOrFriend(post, user) ==
    \/ posts[post] = user
    \/ friends[<<user, posts[post]>>] > 0
    \/ friends[<<posts[post], user>>] > 0

\* C17: can_user_comment answers true exactly when the user is the author of
\* the post or a friend of its author; addComment by such a user stores one
\* comment of that user on that post, and addComment by any other user fails
\* with PermissionDeniedError and leaves the comment table unchanged.
CommentOnlyByAuthorOrFriend ==
    [][(out.op = "none" /\ out'.op # "none" /\ out'.user \in Users)
       => /\ out'.op = "can_user_comment"
             => /\ out'.ret = [err |-> "None", val |-> AuthorOrFriend(out'.post, out'.user)]
                /\ comments' = comments
          /\ out'.op = "add_comment"
             => IF AuthorOrFriend(out'.post, out'.user)
                THEN /\ out'.ret.err = "None"
                     /\ comments' = Append(comments, [post |-> out'.post, user |-> out'.user])
                ELSE /\ out'.ret.err = "PermissionDeniedError"
                     /\ comments' = comments]_vars

\* C17 witness: a user who is neither the author nor a friend of the author
\* was refused; no comment is stored.
CommentRefusedWitness ==
    /\ out.op = "add_comment"
    /\ out.user \in Users
    /\ ~AuthorOrFriend(out.post, out.user)
    /\ out.ret.err = "PermissionDeniedError"
    /\ comments = <<>>

\* C18: at most one reaction row is stored per (post, user) pair, and every
\* setReaction call that ends, alone or racing with others, leaves exactly
\* one row for its pair, carrying its kind: it replaces, never adds a second
\* row, never fails.
OneReactionPerPair ==
    [][/\ \A q1, q2 \in reactions' :
             (q1.post = q2.post /\ q1.user = q2.user) => q1 = q2
       /\ (event'[1] = "set_reaction" /\ event'[2] # "running")
          => /\ {q \in reactions' : q.post = event'[3] /\ q.user = event'[4]}
                   = {[post |-> event'[3], user |-> event'[4],
                       reaction_type |-> event'[5]]}
             /\ has_reacted(reactions', event'[3], event'[4])
             /\ \A q \in reactions :
                   (q.post # event'[3] \/ q.user # event'[4]) => q \in reactions']_vars

\* C18 witness: of two racing setReaction calls of one user on one post with
\* different kinds, the later INSERT met the row of the other and replaced
\* its kind; one row is stored.
OneReactionPerPairWitness ==
    /\ event[1] = "set_reaction"
    /\ event[2] = "conflict_updated"
    /\ event[5] = "love"
    /\ calls = 2
    /\ reactions = {[post |-> event[3], user |-> event[4], reaction_type |-> "love"]}

\* C19: whenever two users are friends, a request between them, in one of
\* the two directions, is stored with status accepted.
FriendsBackedByAcceptedRequest ==
    \A a, b \in Users :
        IsFriend(a, b)
        => \E q \in requests :
              /\ q.status = "accepted"
              /\ \/ q.sender = a /\ q.receiver = b
                 \/ q.sender = b /\ q.receiver = a

\* C20: only steps of accept change the friend table (send, load, reject and
\* cancel leave it as it is), and a step that changes it removes no friend
\* row: two users who are friends stay friends, and a viewer to whom
\* visible_posts shows a post of the owner is shown it after the step.
FriendGraphOnlyGrows ==
    [][friends' # friends
       => /\ event'[1] = "accept"
          /\ \A p \in Pairs : friends'[p] >= friends[p]
          /\ \A a, b \in Users :
                /\ IsFriend(a, b) => friends'[<<a, b>>] > 0
                /\ visible_posts(friends, <<a>>, a, b, 1, 1).val = <<1>>
                   => visible_posts(friends', <<a>>, a, b, 1, 1).val = <<1>>]_vars

\* C20 witness: a reject or cancel has just deleted a request while two users
\* are friends.
FriendGraphOnlyGrowsWitness ==
    /\ event[1] \in {"reject", "cancel"}
    /\ event[2] = "deleted"
    /\ \E a, b \in Users : a # b /\ IsFriend(a, b) /\ IsFriend(b, a)

====
